---- MODULE Spec2Model ----
(***************************************************************************)
(* Model of monitor-movie-show-releases: one poll cycle                    *)
(* (MonitorMovieShowReleases.run) over the configured movies and shows,    *)
(* with the record normalizer, the dictdiffer-based change formatter, the  *)
(* JSON file cache of Config and the SMTP notifier.                        *)
(*                                                                         *)
(* Python values are represented as follows: a dict is a function with a   *)
(* string domain (a TLA+ record), a list is a sequence, None is the record *)
(* PyNone, and a formatted text is a sequence of parts, so that the empty  *)
(* string "" returned by the formatters is the empty sequence.             *)
(***************************************************************************)
EXTENDS Integers, Sequences, FiniteSets, TLC

\* ------------------------------------------------------------------ bounds
MaxId == 2            \* movie and show IDs are 1..MaxId
MaxItems == 2         \* configured movies plus configured shows
MaxRecipients == 2    \* length of the configured "to" list
MaxRuns == 2          \* consecutive invocations of the program
MaxPolls == 4         \* configured items times invocations
MaxThrottleItems == 21 \* list length in the throttle configurations

\* --------------------------------------------------------------- constants
\* run(): "if n % 10 == 0" decides the pause before an item
ThrottleEvery == 10

\* ------------------------------------------------------- python primitives
PyNone == [py_none |-> TRUE]
EmptyDict == [k \in {} |-> k]

\* dict.get(key, default)
Get(d, k, default) == IF k \in DOMAIN d THEN d[k] ELSE default

\* d[k] = v on a dict (adds the key or overwrites it)
SetKey(d, k, v) == [x \in (DOMAIN d) \cup {k} |-> IF x = k THEN v ELSE d[x]]

\* Iteration order of the keys of the dicts of this program: the insertion
\* order of _get_movie_info / _get_show_info, then the keys of the nested
\* release and episode dicts.
KeyOrder ==
    << "id", "title", "original_title", "status", "release_dates",
       "next_episode_to_air", "type", "release_date", "iso_639_1",
       "episode_number", "season_number", "name", "air_date" >>

Keys(d) == SelectSeq(KeyOrder, LAMBDA k : k \in DOMAIN d)

RECURSIVE Concat(_)
Concat(ss) == IF ss = <<>> THEN <<>> ELSE Head(ss) \o Concat(Tail(ss))

\* --------------------------------------------------------- ReleaseType
ReleaseType ==
    [ Premiere |-> 1, LimitedTheatrical |-> 2, Theatrical |-> 3,
      Digital |-> 4, Physical |-> 5, TV |-> 6 ]

\* The interpreters the program runs on, told apart by what
\* "x in ReleaseType" does for an int x: EnumMeta.__contains__ raises
\* TypeError for an operand that is not an Enum member up to Python 3.11,
\* and tests the value against the members' values from Python 3.12 on.
Pythons == {"3.11", "3.12"}

\* _describe_release_type, line 132: "type_id not in ReleaseType" raises
\* TypeError
_describe_release_type_raises(py, type_id) == py = "3.11"

\* _describe_release_type when line 132 does not raise: membership of the
\* value in the IntEnum, then the member's name.
_describe_release_type(type_id) ==
    IF ~ (\E m \in DOMAIN ReleaseType : ReleaseType[m] = type_id)
    THEN "Unknown"
    ELSE CHOOSE m \in DOMAIN ReleaseType : ReleaseType[m] = type_id

\* ------------------------------------------------------------ normalizer
\* _filter_release_dates_by_country
_filter_release_dates_by_country(movie, country) ==
    IF ~ ("release_dates" \in DOMAIN movie)
       \/ ~ ("results" \in DOMAIN movie["release_dates"])
    THEN <<>>
    ELSE LET country_releases ==
                 SelectSeq(movie["release_dates"]["results"],
                           LAMBDA r : r["iso_3166_1"] = country)
         IN IF country_releases = <<>>
            THEN <<>>
            ELSE LET releases == country_releases[1]["release_dates"]
                 IN [ i \in 1..Len(releases) |->
                        SetKey(SetKey(releases[i], "type",
                                      _describe_release_type(releases[i]["type"])),
                               "iso_639_1", country) ]

\* _filter_release_dates_by_country raises: the loop of lines 147-149
\* calls _describe_release_type for every release of the country
_filter_release_dates_by_country_raises(py, movie, country) ==
    /\ "release_dates" \in DOMAIN movie
    /\ "results" \in DOMAIN movie["release_dates"]
    /\ LET country_releases ==
               SelectSeq(movie["release_dates"]["results"],
                         LAMBDA r : r["iso_3166_1"] = country)
       IN /\ country_releases # <<>>
          /\ \E i \in 1..Len(country_releases[1]["release_dates"]) :
                _describe_release_type_raises(
                    py, country_releases[1]["release_dates"][i]["type"])

\* _get_movie_info raises: one of the calls of lines 166, 168, 170 does,
\* each of which is made only when the list is still empty
_get_movie_info_raises(py, movie) ==
    \/ _filter_release_dates_by_country_raises(py, movie, "US")
    \/ /\ _filter_release_dates_by_country(movie, "US") = <<>>
       /\ \/ _filter_release_dates_by_country_raises(py, movie, "GB")
          \/ /\ _filter_release_dates_by_country(movie, "GB") = <<>>
             /\ _filter_release_dates_by_country_raises(py, movie, "DE")

\* _get_movie_info, applied to the payload TMDB.get_movie returned, when
\* it does not raise
_get_movie_info(movie_id, movie) ==
    LET title == Get(movie, "title", "")
        us == _filter_release_dates_by_country(movie, "US")
        gb == _filter_release_dates_by_country(movie, "GB")
        de == _filter_release_dates_by_country(movie, "DE")
    IN [ id |-> movie_id,
         title |-> title,
         original_title |-> Get(movie, "original_title", title),
         status |-> Get(movie, "status", ""),
         release_dates |-> IF us # <<>> THEN us
                           ELSE IF gb # <<>> THEN gb
                           ELSE de ]

\* _get_show_info, applied to the payload TMDB.get_show returned
_get_show_info(show_id, show) ==
    LET title == Get(show, "name", "")
    IN [ id |-> show_id,
         title |-> title,
         original_title |-> Get(show, "original_name", title),
         status |-> Get(show, "status", ""),
         next_episode_to_air |-> Get(show, "next_episode_to_air", PyNone) ]

\* ------------------------------------------------------- dictdiffer.diff
\* The recursion of dictdiffer.diff on the values this program hands it:
\* two dicts are compared key by key (common keys recursed into in the
\* order of the first dict, then one "add" carrying all added keys, then
\* one "remove" carrying all removed keys), two lists index by index, and
\* anything else yields one "change" when the two values are unequal.
\* release_dates is the only list-valued key and its elements are dicts;
\* next_episode_to_air is a dict or None.
RECURSIVE DiffDict(_, _, _), DiffList(_, _, _), DiffValue(_, _, _, _)

DiffValue(k, first, second, node) ==
    IF k = "release_dates"
    THEN DiffList(first, second, node)
    ELSE IF k = "next_episode_to_air" /\ first # PyNone /\ second # PyNone
    THEN DiffDict(first, second, node)
    ELSE IF first # second
    THEN << [op |-> "change", path |-> node, values |-> <<first, second>>] >>
    ELSE <<>>

DiffDict(first, second, node) ==
    LET intersection == SelectSeq(Keys(first), LAMBDA k : k \in DOMAIN second)
        addition == SelectSeq(Keys(second), LAMBDA k : k \notin DOMAIN first)
        deletion == SelectSeq(Keys(first), LAMBDA k : k \notin DOMAIN second)
    IN Concat([ i \in 1..Len(intersection) |->
                  DiffValue(intersection[i], first[intersection[i]],
                            second[intersection[i]],
                            node \o <<intersection[i]>>) ])
       \o (IF addition # <<>>
           THEN << [op |-> "add", path |-> node,
                    values |-> [ i \in 1..Len(addition) |->
                                   <<addition[i], second[addition[i]]>> ]] >>
           ELSE <<>>)
       \o (IF deletion # <<>>
           THEN << [op |-> "remove", path |-> node,
                    values |-> [ i \in 1..Len(deletion) |->
                                   <<deletion[i], first[deletion[i]]>> ]] >>
           ELSE <<>>)

DiffList(first, second, node) ==
    LET common == IF Len(first) < Len(second) THEN Len(first) ELSE Len(second)
    IN Concat([ i \in 1..common |->
                  DiffDict(first[i], second[i], node \o <<i - 1>>) ])
       \o (IF Len(second) > common
           THEN << [op |-> "add", path |-> node,
                    values |-> [ i \in 1..(Len(second) - common) |->
                                   <<common + i - 1, second[common + i]>> ]] >>
           ELSE <<>>)
       \o (IF Len(first) > common
           THEN << [op |-> "remove", path |-> node,
                    values |-> [ i \in 1..(Len(first) - common) |->
                                   <<Len(first) - i, first[Len(first) - i + 1]>> ]] >>
           ELSE <<>>)

\* list(dictdiffer.diff(old, new)) on two records (or the empty dict)
Diff(old, new) == DiffDict(old, new, <<>>)

\* ------------------------------------------------------------- formatter
\* _format_unified_dict_diff: the unified diff of the two serialised
\* records, kept as its header and the two texts it was computed from.
_format_unified_dict_diff(old, new, tmdb_id) ==
    << <<"---", tmdb_id, ".json.old">>, <<"+++", tmdb_id, ".json.new">>,
       <<"old", old>>, <<"new", new>> >>

\* _format_dict_diff: one line per change
_format_dict_diff(diff) == [ i \in 1..Len(diff) |-> <<"str", diff[i]>> ]

\* Faulty variant of _format_movie_change: the early return for an empty
\* diff is missing.
_format_movie_change_no_return(movie_old, movie_new) ==
    << TRUE,
       << "Change in movie \"", movie_new["title"], "\" (", movie_new["id"], ")" >>,
       << <<"https://www.themoviedb.org/movie/", movie_new["id"]>> >>
       \o _format_dict_diff(Diff(movie_old, movie_new)) >>

\* _format_movie_change
_format_movie_change(movie_old, movie_new) ==
    LET movie_diff == Diff(movie_old, movie_new)
    IN IF Len(movie_diff) = 0
       THEN <<FALSE, <<>>, <<>>>>
       ELSE LET subject == << "Change in movie \"", movie_new["title"], "\" (",
                              movie_new["id"], ")" >>
                releases == movie_new["release_dates"]
                body ==
                    << <<"https://www.themoviedb.org/movie/", movie_new["id"]>>,
                       <<"Title: ", movie_new["title"]>>,
                       <<"Original Title: ", movie_new["original_title"]>>,
                       <<"Status: ", movie_new["status"]>> >>
                    \o [ i \in 1..Len(releases) |->
                           << "Release(", releases[i]["type"], ", ",
                              releases[i]["iso_639_1"], "): ",
                              releases[i]["release_date"] >> ]
                    \o << <<"------">> >>
                    \o _format_unified_dict_diff(movie_old, movie_new, movie_new["id"])
                    \o << <<"------">> >>
                    \o _format_dict_diff(movie_diff)
            IN <<TRUE, subject, body>>

\* Faulty variant of _format_show_change: the early return for an empty
\* diff is missing.
_format_show_change_no_return(show_old, show_new) ==
    << TRUE,
       << "Change in show \"", show_new["title"], "\" (", show_new["id"], ")" >>,
       << <<"https://www.themoviedb.org/tv/", show_new["id"]>> >>
       \o _format_dict_diff(Diff(show_old, show_new)) >>

\* _format_show_change
_format_show_change(show_old, show_new) ==
    LET show_diff == Diff(show_old, show_new)
    IN IF Len(show_diff) = 0
       THEN <<FALSE, <<>>, <<>>>>
       ELSE LET subject == << "Change in show \"", show_new["title"], "\" (",
                              show_new["id"], ")" >>
                next_episode == show_new["next_episode_to_air"]
                body ==
                    << <<"https://www.themoviedb.org/tv/", show_new["id"]>>,
                       <<"Title: ", show_new["title"]>>,
                       <<"Original Title: ", show_new["original_title"]>>,
                       <<"Status: ", show_new["status"]>> >>
                    \o (IF next_episode # PyNone
                        THEN << << "Next to air: ",
                                   Get(next_episode, "season_number", 0), "x",
                                   Get(next_episode, "episode_number", 0), " - ",
                                   Get(next_episode, "name", ""), " (",
                                   Get(next_episode, "id", 0), ")  --  ",
                                   Get(next_episode, "air_date", "") >> >>
                        ELSE <<>>)
                    \o << <<"------">> >>
                    \o _format_unified_dict_diff(show_old, show_new, show_new["id"])
                    \o << <<"------">> >>
                    \o _format_dict_diff(show_diff)
            IN <<TRUE, subject, body>>

\* ------------------------------------------------------------ Config
NoFile == [exists |-> FALSE]

Str(chars) == [str |-> chars]
List(elems) == [list |-> elems]

IsSpace(c) == c \in {" ", "\t", "\n"}

RECURSIVE LStrip(_)
LStrip(chars) ==
    IF chars # <<>> /\ IsSpace(Head(chars)) THEN LStrip(Tail(chars)) ELSE chars

RECURSIVE RStrip(_)
RStrip(chars) ==
    IF chars # <<>> /\ IsSpace(chars[Len(chars)])
    THEN RStrip(SubSeq(chars, 1, Len(chars) - 1))
    ELSE chars

\* str.strip()
Strip(chars) == RStrip(LStrip(chars))

\* "not value" on the values a config file holds
Falsy(value) == value = PyNone \/ value = Str(<<>>) \/ value = List(<<>>)

\* Config._get_config_key
_get_config_key(config, key, default) ==
    IF ~ (key \in DOMAIN config) THEN default
    ELSE LET value == config[key]
         IN IF value = PyNone \/ Falsy(value) THEN default
            ELSE IF "str" \in DOMAIN value /\ Strip(value["str"]) = <<>>
            THEN default
            ELSE value

\* Config.get_program_config: the defaults, overridden by what config.json
\* holds; a single "to" address becomes a list of one.
get_program_config(file) ==
    LET default_to == List(<<>>)
        to == IF file = NoFile \/ ~ ("email" \in DOMAIN file["json"])
              THEN default_to
              ELSE _get_config_key(file["json"]["email"], "to", default_to)
    IN [ tmdb |-> IF file = NoFile THEN PyNone
                  ELSE _get_config_key(file["json"], "tmdb", PyNone),
         movies |-> IF file = NoFile THEN List(<<>>)
                    ELSE _get_config_key(file["json"], "movies", List(<<>>)),
         shows |-> IF file = NoFile THEN List(<<>>)
                   ELSE _get_config_key(file["json"], "shows", List(<<>>)),
         email |-> [ to |-> IF "str" \in DOMAIN to THEN List(<<to>>) ELSE to ] ]

\* json.dump of a record into its cache file: the members in key order
JsonDump(d) ==
    [ text |-> [ i \in 1..Len(Keys(d)) |-> <<Keys(d)[i], d[Keys(d)[i]]>> ] ]

\* json.load of a cache file
JsonLoad(file) ==
    LET text == file["text"]
    IN [ k \in { text[i][1] : i \in 1..Len(text) } |->
           text[CHOOSE i \in 1..Len(text) : text[i][1] = k][2] ]

\* Faulty variant of get_cached: a cache miss yields a record with default
\* members instead of {}.
get_cached_default(files, kind, id) ==
    IF files[<<kind, id>>] = NoFile
    THEN IF kind = "movie"
         THEN [ id |-> id, title |-> "", original_title |-> "", status |-> "",
                release_dates |-> <<>> ]
         ELSE [ id |-> id, title |-> "", original_title |-> "", status |-> "",
                next_episode_to_air |-> PyNone ]
    ELSE JsonLoad(files[<<kind, id>>])

\* Config.get_cached_movie / get_cached_show: {} when there is no file
get_cached(files, kind, id) ==
    IF files[<<kind, id>>] = NoFile THEN EmptyDict
    ELSE JsonLoad(files[<<kind, id>>])

\* Faulty variant of put_cached: put_cached_show writes under the movies
\* directory.
put_cached_movies_path(files, kind, id, info) ==
    [files EXCEPT ![<<"movie", id>>] = JsonDump(info)]

\* Config.put_cached_movie / put_cached_show
put_cached(files, kind, id, info) ==
    [files EXCEPT ![<<kind, id>>] = JsonDump(info)]

\* ----------------------------------------------------------- TMDB data
\* What TMDB.get_movie can return for a movie: an empty response, an
\* announced movie without releases, a released movie with one US release.
MoviePayloads ==
    { EmptyDict,
      [ title |-> "A", original_title |-> "A", status |-> "Announced",
        release_dates |-> [results |-> <<>>] ],
      [ title |-> "A", original_title |-> "A", status |-> "Released",
        release_dates |->
            [results |-> << [ iso_3166_1 |-> "US",
                              release_dates |->
                                  << [type |-> 4, release_date |-> "2024-05-01"] >> ] >>] ] }

\* What TMDB.get_show can return for a show
ShowPayloads ==
    { EmptyDict,
      [ name |-> "S", original_name |-> "S", status |-> "Returning Series",
        next_episode_to_air |-> PyNone ],
      [ name |-> "S", original_name |-> "S", status |-> "Returning Series",
        next_episode_to_air |->
            [ id |-> 7, name |-> "Pilot", season_number |-> 1,
              episode_number |-> 2, air_date |-> "2024-05-01" ] ] }

\* d restricted to the keys in ks: the payload without its other members
Restrict(d, ks) == [ k \in ks |-> d[k] ]

\* "release_dates" of a movie payload: no results, one US release, an
\* empty US list with GB and DE releases, DE only with an unknown type,
\* no listed country, GB listed before US, and a member without "results"
ReleaseDatesValues ==
    { [results |-> <<>>],
      [results |-> << [ iso_3166_1 |-> "US", release_dates |->
                          << [type |-> 4, release_date |-> "2024-05-01"] >> ] >>],
      [results |-> << [ iso_3166_1 |-> "US", release_dates |-> <<>> ],
                      [ iso_3166_1 |-> "GB", release_dates |->
                          << [type |-> 3, release_date |-> "2024-03-01"] >> ],
                      [ iso_3166_1 |-> "DE", release_dates |->
                          << [type |-> 1, release_date |-> "2024-02-01"] >> ] >>],
      [results |-> << [ iso_3166_1 |-> "DE", release_dates |->
                          << [type |-> 99, release_date |-> "2024-02-01"],
                             [type |-> 6, release_date |-> "2024-06-01"] >> ] >>],
      [results |-> << [ iso_3166_1 |-> "FR", release_dates |->
                          << [type |-> 4, release_date |-> "2024-05-01"] >> ] >>],
      [results |-> << [ iso_3166_1 |-> "GB", release_dates |->
                          << [type |-> 3, release_date |-> "2024-03-01"] >> ],
                      [ iso_3166_1 |-> "US", release_dates |->
                          << [type |-> 4, release_date |-> "2024-05-01"],
                             [type |-> 5, release_date |-> "2024-07-01"] >> ] >>],
      [id |-> 1] }

\* movie payloads with every member present or missing
RichMoviePayloads ==
    { Restrict(full, ks) :
        full \in [ title : {"A"}, original_title : {"", "O"},
                   status : {"Released"}, release_dates : ReleaseDatesValues ],
        ks \in SUBSET {"title", "original_title", "status", "release_dates"} }

\* release type codes: below, in and above the range of ReleaseType
TypeCodes == {-1, 0, 1, 2, 3, 4, 5, 6, 7, 99}

\* movie payloads with one GB release of every type code
TypeCodePayloads ==
    { [ title |-> "A",
        release_dates |->
            [results |-> << [ iso_3166_1 |-> "GB",
                              release_dates |->
                                  << [type |-> c, release_date |-> "2024-05-01"] >> ] >>] ] :
        c \in TypeCodes }

\* "next_episode_to_air" of a show payload: null, two episodes that differ
\* in the air date, an episode without its optional members
NextEpisodeValues ==
    { PyNone,
      [ id |-> 7, name |-> "Pilot", season_number |-> 1, episode_number |-> 2,
        air_date |-> "2024-05-01" ],
      [ id |-> 7, name |-> "Pilot", season_number |-> 1, episode_number |-> 2,
        air_date |-> "2024-05-08" ],
      [ id |-> 8 ] }

\* show payloads with every member present or missing
RichShowPayloads ==
    { Restrict(full, ks) :
        full \in [ name : {"S"}, original_name : {"", "O"},
                   status : {"Ended"}, next_episode_to_air : NextEpisodeValues ],
        ks \in SUBSET {"name", "original_name", "status", "next_episode_to_air"} }

Kinds == {"movie", "show"}
Ids == 1..MaxId
Payloads(kind) == IF kind = "movie" THEN MoviePayloads ELSE ShowPayloads

\* ------------------------------------------------------ configurations
Letters == <<"a", "b", "c", "d", "e", "f">>
Address(i) == Str(<<Letters[i]>>)

\* The lists of at most len IDs, up to a renaming of the IDs (the program
\* only compares IDs and copies them): the first ID of a list is MaxId and
\* every later one is an ID already listed or the next smaller one, so
\* that a list with two IDs is not in ascending order.
IdLists(len) ==
    { s \in UNION { [1..k -> Ids] : k \in 0..len } :
        \A i \in 1..Len(s) :
            s[i] >= MaxId - Cardinality({ s[j] : j \in 1..(i - 1) }) }

\* "to" in config.json: missing, one address as a string, or a list
ToValues ==
    { PyNone, Address(1) }
    \cup { List([i \in 1..k |-> Address(i)]) : k \in 2..MaxRecipients }

ConfigJson(tmdb, movies, shows, to) ==
    [ json |-> [ tmdb |-> tmdb, movies |-> List(movies), shows |-> List(shows),
                 email |-> [to |-> to] ] ]

\* config.json files with a usable API key
GoodConfigFiles ==
    { ConfigJson(Str(<<"k">>), m, s, to) :
        m \in IdLists(MaxItems), s \in IdLists(MaxItems), to \in ToValues }

\* no config.json, or one whose API key is missing, null, empty or blank
BadConfigFiles ==
    { NoFile,
      [ json |-> [ movies |-> List(<<1>>), shows |-> List(<<1>>),
                   email |-> [to |-> Address(1)] ] ] }
    \cup { ConfigJson(k, <<1>>, <<1>>, Address(1)) :
             k \in { PyNone, Str(<<>>), Str(<<" ">>), Str(<<" ", "\t">>) } }

\* config.json files with long lists: the same ID listed again and again
ThrottleLengths ==
    { 0, 1, ThrottleEvery - 1, ThrottleEvery, ThrottleEvery + 1,
      2 * ThrottleEvery, MaxThrottleItems }

ThrottleConfigFiles ==
    { ConfigJson(Str(<<"k">>), [i \in 1..m |-> 1], [i \in 1..s |-> 1], Address(1)) :
        m \in ThrottleLengths, s \in {0, ThrottleEvery + 1} }

Args == [ skip_mails : BOOLEAN, skip_cache : BOOLEAN,
          skip_movies : BOOLEAN, skip_shows : BOOLEAN ]

\* ----------------------------------------------------------------- state
VARIABLES
    configFile,      \* config.json
    args,            \* the parsed command line (self._args)
    cacheFiles,      \* the files movies/<id>.json and shows/<id>.json
    run,             \* number of this invocation of the program
    python,          \* the interpreter that runs the program
    pc,              \* position in run() / _check_movie() / _check_show()
    result,          \* how run() ended: "return 0", "return 1", "raise: <where>"
    program_config,  \* run(): program_config
    tmdb,            \* self._tmdb is constructed and authenticated
    kind,            \* which loop of run() is executing
    n,               \* the loop variable n of enumerate()
    info_cached,     \* _check_*: movie_info_cached / show_info_cached
    payload,         \* _get_*_info: movie / show, the response of TMDB
    info,            \* _check_*: movie_info / show_info
    changed,         \* _check_*: changed
    subject,         \* _check_*: subject
    body,            \* _check_*: body
    a,               \* _check_*: index of the next address of email_to
    pauses,          \* history: the throttle pauses of this run, <<kind, n>>
    checks,          \* history: the _check_* calls of this run, <<kind, n, id>>
    returns,         \* history: the _check_* calls that returned
    sent,            \* history: SendMail.send calls of the current item
    cache0,          \* history: cacheFiles when the current item began
    effects,         \* history: the reads, requests and writes of the current item
    prev             \* history: the last poll of each item that reported a change

vars == << configFile, args, cacheFiles, run, python, pc, result, program_config, tmdb,
           kind, n, info_cached, payload, info, changed, subject, body, a,
           pauses, checks, returns, sent, cache0, effects, prev >>

NoLocals ==
    /\ info_cached' = EmptyDict
    /\ payload' = EmptyDict
    /\ info' = EmptyDict
    /\ changed' = FALSE
    /\ subject' = <<>>
    /\ body' = <<>>
    /\ a' = 0

KeepLocals ==
    UNCHANGED << info_cached, payload, info, changed, subject, body, a >>
KeepConfig == UNCHANGED << configFile, args, run, python >>
KeepHistory ==
    UNCHANGED << pauses, checks, returns, sent, cache0, effects, prev >>

\* one more read, request or write of the current item
Effect(e) == effects' = Append(effects, e)

\* no poll of the item has reported a change yet
NoPoll == [polled |-> FALSE]

InitRun ==
    /\ pc = "run"
    /\ result = "none"
    /\ program_config = EmptyDict
    /\ tmdb = FALSE
    /\ kind = "none"
    /\ n = 0
    /\ info_cached = EmptyDict
    /\ payload = EmptyDict
    /\ info = EmptyDict
    /\ changed = FALSE
    /\ subject = <<>>
    /\ body = <<>>
    /\ a = 0
    /\ pauses = <<>>
    /\ checks = <<>>
    /\ returns = <<>>
    /\ sent = <<>>
    /\ effects = <<>>

ItemsOf(file) ==
    IF file = NoFile THEN 0
    ELSE Len(file["json"]["movies"]["list"]) + Len(file["json"]["shows"]["list"])

Init ==
    /\ configFile \in { f \in GoodConfigFiles : ItemsOf(f) <= MaxItems }
                         \cup BadConfigFiles
    /\ args \in Args
    /\ cacheFiles = [ item \in Kinds \X Ids |-> NoFile ]
    /\ cache0 = cacheFiles
    /\ prev = [ item \in Kinds \X Ids |-> NoPoll ]
    /\ run = 1
    /\ python \in Pythons
    /\ InitRun

InitThrottle ==
    /\ configFile \in ThrottleConfigFiles
    /\ args \in Args
    /\ cacheFiles = [ item \in Kinds \X Ids |-> NoFile ]
    /\ cache0 = cacheFiles
    /\ prev = [ item \in Kinds \X Ids |-> NoPoll ]
    /\ run = 1
    /\ python \in Pythons
    /\ InitRun

Movies == program_config["movies"]["list"]
Shows == program_config["shows"]["list"]
EmailTo == program_config["email"]["to"]["list"]
ItemList == IF kind = "movie" THEN Movies ELSE Shows
ItemId == ItemList[n + 1]

\* the poll of the current item, which reported a change, as the later
\* polls of the item find it recorded: what was fetched, how many mails
\* were delivered, whether a send raised, and, for a poll that left the
\* cache entry of the item as it found it, the mail that it sent
ThisPoll(failed) ==
    [ polled |-> TRUE, payload |-> payload,
      delivered |-> Len(SelectSeq(sent, LAMBDA m : m["ok"])),
      failed |-> failed,
      mail |-> IF cacheFiles[<<kind, ItemId>>] = cache0[<<kind, ItemId>>]
               THEN <<subject, body>>
               ELSE <<>> ]

\* ------------------------------------------------------------------ run()
\* Faulty variant of LoadConfig: the message is printed but "return 1" is
\* missing.
LoadConfigNoReturn ==
    /\ pc = "run"
    /\ program_config' = get_program_config(configFile)
    /\ pc' = "clients"
    /\ UNCHANGED << cacheFiles, result, tmdb, kind, n >>
    /\ KeepConfig /\ KeepLocals /\ KeepHistory

\* run(), lines 235-241: load the configuration; without an API key print
\* the message and return 1.
LoadConfig ==
    /\ pc = "run"
    /\ program_config' = get_program_config(configFile)
    /\ IF Falsy(program_config'["tmdb"])
       THEN /\ pc' = "exit"
            /\ result' = "return 1"
       ELSE /\ pc' = "clients"
            /\ UNCHANGED result
    /\ UNCHANGED << cacheFiles, tmdb, kind, n >>
    /\ KeepConfig /\ KeepLocals /\ KeepHistory

\* run(), lines 246-249: SendMail(...) and TMDB(...), whose constructor
\* authenticates.
CreateClients ==
    /\ pc = "clients"
    /\ tmdb' = TRUE
    /\ pc' = "movies"
    /\ n' = 0
    /\ kind' = "movie"
    /\ UNCHANGED << cacheFiles, result, program_config >>
    /\ KeepConfig /\ KeepLocals /\ KeepHistory

\* TMDB._try_auth raises RuntimeError: run() propagates it.
AuthFails ==
    /\ pc = "clients"
    /\ pc' = "exit"
    /\ result' = "raise: TMDB._try_auth"
    /\ UNCHANGED << cacheFiles, program_config, tmdb, kind, n >>
    /\ KeepConfig /\ KeepLocals /\ KeepHistory

\* the exception that ended run(), if one did
Raised ==
    result \in { "raise: TMDB._try_auth", "raise: TMDB.get",
                 "raise: TypeError", "raise: SendMail.send" }

\* Faulty variant of ThrottleDue: the pause comes after ten items, not
\* before the first.
ThrottleDueAfterTen(k) == k > 0 /\ k % ThrottleEvery = 0

\* Faulty variant of ThrottleDue: one counter for both loops instead of
\* the loop variable.
ThrottleDueSharedCounter(k) == Len(checks) % ThrottleEvery = 0

\* lines 253 / 263: "if n % 10 == 0" on the loop variable of enumerate()
ThrottleDue(k) == k % ThrottleEvery = 0

SkipKind == IF kind = "movie" THEN args.skip_movies ELSE args.skip_shows

\* run(), lines 252-259 and 262-269: the next iteration of the loop over
\* the movies or the shows: the pause when n % 10 == 0, then the call of
\* _check_movie / _check_show.
NextItem ==
    /\ pc \in {"movies", "shows"}
    /\ ~ SkipKind
    /\ n < Len(ItemList)
    /\ pauses' = IF ThrottleDue(n)
                 THEN Append(pauses, <<kind, n>>)
                 ELSE pauses
    /\ checks' = Append(checks, <<kind, n, ItemId>>)
    /\ sent' = <<>>
    /\ effects' = <<>>
    /\ cache0' = cacheFiles
    /\ pc' = "get_cached"
    /\ UNCHANGED << cacheFiles, result, program_config, tmdb, kind, n, returns,
                    prev >>
    /\ KeepConfig /\ KeepLocals

\* run(), lines 251 and 261: the loop over the movies is over or skipped
MoviesDone ==
    /\ pc = "movies"
    /\ SkipKind \/ n = Len(ItemList)
    /\ pc' = "shows"
    /\ kind' = "show"
    /\ n' = 0
    /\ UNCHANGED << cacheFiles, result, program_config, tmdb >>
    /\ KeepConfig /\ KeepLocals /\ KeepHistory

\* run(), lines 261 and 271: the loop over the shows is over or skipped
ShowsDone ==
    /\ pc = "shows"
    /\ SkipKind \/ n = Len(ItemList)
    /\ pc' = "exit"
    /\ result' = "return 0"
    /\ UNCHANGED << cacheFiles, program_config, tmdb, kind, n >>
    /\ KeepConfig /\ KeepLocals /\ KeepHistory

\* ------------------------------------------- _check_movie / _check_show
\* lines 190 / 212: read the cached record
GetCached ==
    /\ pc = "get_cached"
    /\ info_cached' = get_cached(cacheFiles, kind, ItemId)
    /\ pc' = "fetch"
    /\ UNCHANGED << cacheFiles, result, program_config, tmdb, kind, n,
                    payload, info, changed, subject, body, a >>
    /\ Effect("get_cached")
    /\ UNCHANGED << pauses, checks, returns, sent, cache0, prev >>
    /\ KeepConfig

\* lines 191 / 213: TMDB answers with one of the payloads ps, which is
\* normalized
FetchFrom(ps) ==
    /\ pc = "fetch"
    /\ payload' \in ps
    /\ kind = "movie" => ~ _get_movie_info_raises(python, payload')
    /\ info' = IF kind = "movie"
               THEN _get_movie_info(ItemId, payload')
               ELSE _get_show_info(ItemId, payload')
    /\ pc' = "format"
    /\ UNCHANGED << cacheFiles, result, program_config, tmdb, kind, n,
                    info_cached, changed, subject, body, a >>
    /\ Effect("fetch")
    /\ UNCHANGED << pauses, checks, returns, sent, cache0, prev >>
    /\ KeepConfig

Fetch == FetchFrom(Payloads(kind))

\* lines 191 / 213: TMDB.get_movie / get_show raises (RuntimeError for an
\* HTTP error status, the requests exception otherwise); neither
\* _check_* nor run() catches it.
FetchFails ==
    /\ pc = "fetch"
    /\ pc' = "exit"
    /\ result' = "raise: TMDB.get"
    /\ UNCHANGED << cacheFiles, program_config, tmdb, kind, n >>
    /\ Effect("fetch")
    /\ UNCHANGED << pauses, checks, returns, sent, cache0, prev >>
    /\ KeepConfig /\ KeepLocals

\* line 191: TMDB answers with one of the payloads ps and _get_movie_info
\* raises the TypeError of _describe_release_type; neither _check_movie
\* nor run() catches it.
NormalizeRaisesFrom(ps) ==
    /\ pc = "fetch"
    /\ kind = "movie"
    /\ payload' \in ps
    /\ _get_movie_info_raises(python, payload')
    /\ pc' = "exit"
    /\ result' = "raise: TypeError"
    /\ UNCHANGED << cacheFiles, program_config, tmdb, kind, n,
                    info_cached, info, changed, subject, body, a >>
    /\ Effect("fetch")
    /\ UNCHANGED << pauses, checks, returns, sent, cache0, prev >>
    /\ KeepConfig

NormalizeRaises == NormalizeRaisesFrom(Payloads(kind))

\* where _check_* continues after the mails: lines 204 / 226
AfterMails == IF args.skip_cache THEN "item_done" ELSE "put_cached"

\* lines 195-200 / 217-222: format the change and branch on it
FormatChange ==
    /\ pc = "format"
    /\ LET r == IF kind = "movie"
                THEN _format_movie_change(info_cached, info)
                ELSE _format_show_change(info_cached, info)
       IN /\ changed' = r[1]
          /\ subject' = r[2]
          /\ body' = r[3]
          /\ a' = 1
          /\ pc' = IF ~ r[1] THEN "item_done"
                   ELSE IF ~ args.skip_mails /\ EmailTo # <<>> THEN "send"
                   ELSE AfterMails
    /\ UNCHANGED << cacheFiles, result, program_config, tmdb, kind, n,
                    info_cached, payload, info >>
    /\ KeepConfig /\ KeepHistory

\* lines 201-202 / 223-224: one SendMail.send that succeeds
Send ==
    /\ pc = "send"
    /\ sent' = Append(sent, [ receiver |-> EmailTo[a], subject |-> subject,
                              body |-> body, ok |-> TRUE ])
    /\ a' = a + 1
    /\ pc' = IF a < Len(EmailTo) THEN "send" ELSE AfterMails
    /\ Effect("send")
    /\ UNCHANGED << cacheFiles, result, program_config, tmdb, kind, n,
                    info_cached, payload, info, changed, subject, body,
                    pauses, checks, returns, cache0, prev >>
    /\ KeepConfig

\* Faulty variant of SendFails: the exception is caught and logged, and
\* _check_* goes on with the next address.
SendFailsCaught ==
    /\ pc = "send"
    /\ sent' = Append(sent, [ receiver |-> EmailTo[a], subject |-> subject,
                              body |-> body, ok |-> FALSE ])
    /\ a' = a + 1
    /\ pc' = IF a < Len(EmailTo) THEN "send" ELSE AfterMails
    /\ Effect("send")
    /\ UNCHANGED << cacheFiles, result, program_config, tmdb, kind, n,
                    info_cached, payload, info, changed, subject, body,
                    pauses, checks, returns, cache0, prev >>
    /\ KeepConfig

\* Faulty variant of SendFails: the cache was written before the mails
\* were sent.
SendFailsCacheWritten ==
    /\ pc = "send"
    /\ sent' = Append(sent, [ receiver |-> EmailTo[a], subject |-> subject,
                              body |-> body, ok |-> FALSE ])
    /\ pc' = "exit"
    /\ result' = "raise: SendMail.send"
    /\ cacheFiles' = put_cached(cacheFiles, kind, ItemId, info)
    /\ effects' = effects \o <<"put_cached", "send">>
    /\ UNCHANGED << program_config, tmdb, kind, n,
                    pauses, checks, returns, cache0, prev >>
    /\ KeepConfig /\ KeepLocals

\* lines 201-202 / 223-224: SendMail.send raises (the SMTP connection or
\* the delivery fails); neither _check_* nor run() catches it.
SendFails ==
    /\ pc = "send"
    /\ sent' = Append(sent, [ receiver |-> EmailTo[a], subject |-> subject,
                              body |-> body, ok |-> FALSE ])
    /\ pc' = "exit"
    /\ result' = "raise: SendMail.send"
    /\ Effect("send")
    /\ UNCHANGED << cacheFiles, program_config, tmdb, kind, n,
                    pauses, checks, returns, cache0, prev >>
    /\ KeepConfig /\ KeepLocals

\* Faulty variant of PutCached: the record is not written.
PutCachedNoWrite ==
    /\ pc = "put_cached"
    /\ pc' = "item_done"
    /\ UNCHANGED << cacheFiles, result, program_config, tmdb, kind, n >>
    /\ Effect("put_cached")
    /\ UNCHANGED << pauses, checks, returns, sent, cache0, prev >>
    /\ KeepConfig /\ KeepLocals

\* lines 204-205 / 226-227: write the new record to the cache
PutCached ==
    /\ pc = "put_cached"
    /\ cacheFiles' = put_cached(cacheFiles, kind, ItemId, info)
    /\ pc' = "item_done"
    /\ UNCHANGED << result, program_config, tmdb, kind, n >>
    /\ Effect("put_cached")
    /\ UNCHANGED << pauses, checks, returns, sent, cache0, prev >>
    /\ KeepConfig /\ KeepLocals

\* _check_* returns to the loop of run(), which takes the next n
ItemReturns ==
    /\ pc = "item_done"
    /\ returns' = Append(returns, <<kind, n, ItemId>>)
    /\ n' = n + 1
    /\ pc' = IF kind = "movie" THEN "movies" ELSE "shows"
    /\ NoLocals
    /\ prev' = IF changed
               THEN [prev EXCEPT ![<<kind, ItemId>>] = ThisPoll(FALSE)]
               ELSE prev
    /\ UNCHANGED << cacheFiles, result, program_config, tmdb, kind,
                    pauses, checks, sent, cache0, effects >>
    /\ KeepConfig

\* The program is started again (by cron, by hand) with the same
\* configuration and command line; the cache files persist. The poll that
\* a failing send ended is recorded here for the next poll of the item.
NewRun ==
    /\ pc = "exit"
    /\ run < MaxRuns
    /\ (run + 1) * ItemsOf(configFile) <= MaxPolls
    /\ run' = run + 1
    /\ pc' = "run"
    /\ result' = "none"
    /\ program_config' = EmptyDict
    /\ tmdb' = FALSE
    /\ kind' = "none"
    /\ n' = 0
    /\ NoLocals
    /\ pauses' = <<>>
    /\ checks' = <<>>
    /\ returns' = <<>>
    /\ sent' = <<>>
    /\ effects' = <<>>
    /\ cache0' = cacheFiles
    /\ prev' = IF result = "raise: SendMail.send"
               THEN [prev EXCEPT ![<<kind, ItemId>>] = ThisPoll(TRUE)]
               ELSE prev
    /\ UNCHANGED << configFile, args, cacheFiles, python >>

Next ==
    \/ LoadConfig
    \/ CreateClients
    \/ AuthFails
    \/ NextItem
    \/ MoviesDone
    \/ ShowsDone
    \/ GetCached
    \/ Fetch
    \/ FetchFails
    \/ NormalizeRaises
    \/ FormatChange
    \/ Send
    \/ SendFails
    \/ PutCached
    \/ ItemReturns
    \/ NewRun

Spec == Init /\ [][Next]_vars

\* the same program on the configurations with long lists
SpecThrottle == InitThrottle /\ [][Next]_vars

\* ------------------------------------------------- the formatter alone
\* the normalized records of an item
Records(k, id) ==
    IF k = "movie"
    THEN { _get_movie_info(id, p) : p \in RichMoviePayloads }
    ELSE { _get_show_info(id, p) : p \in RichShowPayloads }

\* the payloads that _get_*_info normalizes on the interpreter py
PayloadsOn(py, k) ==
    IF k = "movie"
    THEN { p \in RichMoviePayloads : ~ _get_movie_info_raises(py, p) }
    ELSE RichShowPayloads

\* _check_* of the first item is about to format: the cached record is
\* {} or any record an earlier poll of the item stored, the fetched record
\* is any record of the item.
InitFormat ==
    /\ configFile = ConfigJson(Str(<<"k">>), <<1>>, <<1>>,
                               List(<<Address(1), Address(2)>>))
    /\ args \in { x \in Args : ~ x.skip_movies /\ ~ x.skip_shows }
    /\ run = 1
    /\ python \in Pythons
    /\ result = "none"
    /\ program_config = get_program_config(configFile)
    /\ tmdb = TRUE
    /\ kind \in Kinds
    /\ n = 0
    /\ pc = "format"
    /\ info_cached \in {EmptyDict} \cup Records(kind, 1)
    /\ payload \in PayloadsOn(python, kind)
    /\ info = IF kind = "movie" THEN _get_movie_info(1, payload)
              ELSE _get_show_info(1, payload)
    /\ cacheFiles = [ item \in Kinds \X Ids |->
                        IF item = <<kind, 1>> /\ info_cached # EmptyDict
                        THEN JsonDump(info_cached)
                        ELSE NoFile ]
    /\ cache0 = cacheFiles
    /\ changed = FALSE
    /\ subject = <<>>
    /\ body = <<>>
    /\ a = 0
    /\ pauses = IF kind = "movie" THEN << <<kind, 0>> >>
                ELSE << <<"movie", 0>>, <<kind, 0>> >>
    /\ checks = IF kind = "movie" THEN << <<kind, 0, 1>> >>
                ELSE << <<"movie", 0, 1>>, <<kind, 0, 1>> >>
    /\ returns = IF kind = "movie" THEN <<>> ELSE << <<"movie", 0, 1>> >>
    /\ sent = <<>>
    /\ effects = <<"get_cached", "fetch">>
    /\ prev = [ item \in Kinds \X Ids |-> NoPoll ]

SpecFormat == InitFormat /\ [][FormatChange]_vars

\* ------------------------------------------------ the normalizer alone
\* the payloads the normalizer is checked on
NormalizePayloads(k) ==
    IF k = "movie" THEN RichMoviePayloads \cup TypeCodePayloads
    ELSE RichShowPayloads

\* _check_* of the first item has read an empty cache and is about to
\* fetch
InitNormalize ==
    /\ configFile = ConfigJson(Str(<<"k">>), <<1>>, <<1>>, Address(1))
    /\ args \in { x \in Args : ~ x.skip_movies /\ ~ x.skip_shows }
    /\ run = 1
    /\ python \in Pythons
    /\ result = "none"
    /\ program_config = get_program_config(configFile)
    /\ tmdb = TRUE
    /\ kind \in Kinds
    /\ n = 0
    /\ pc = "fetch"
    /\ info_cached = EmptyDict
    /\ payload = EmptyDict
    /\ info = EmptyDict
    /\ cacheFiles = [ item \in Kinds \X Ids |-> NoFile ]
    /\ cache0 = cacheFiles
    /\ changed = FALSE
    /\ subject = <<>>
    /\ body = <<>>
    /\ a = 0
    /\ pauses = IF kind = "movie" THEN << <<kind, 0>> >>
                ELSE << <<"movie", 0>>, <<kind, 0>> >>
    /\ checks = IF kind = "movie" THEN << <<kind, 0, 1>> >>
                ELSE << <<"movie", 0, 1>>, <<kind, 0, 1>> >>
    /\ returns = IF kind = "movie" THEN <<>> ELSE << <<"movie", 0, 1>> >>
    /\ sent = <<>>
    /\ effects = <<"get_cached">>
    /\ prev = [ item \in Kinds \X Ids |-> NoPoll ]

FetchRich == FetchFrom(NormalizePayloads(kind))
NormalizeRaisesRich == NormalizeRaisesFrom(NormalizePayloads(kind))
NextNormalize == FetchRich \/ NormalizeRaisesRich

SpecNormalize == InitNormalize /\ [][NextNormalize]_vars

\* the exit status of the process: sys.exit(main()), or the interpreter's
\* status 1 for an uncaught exception
ExitCode == IF result = "return 0" THEN 0 ELSE 1

\* ------------------------------------------------------------ properties
\* _check_* has formatted the change of the current item
Formatted == a >= 1

\* the current item has ended: _check_* is about to return, or an
\* exception left it
ItemOver == pc = "item_done" \/ (pc = "exit" /\ Raised)

Receivers == [ i \in 1..Len(sent) |-> sent[i]["receiver"] ]

SentAsFormatted ==
    \A i \in 1..Len(sent) : sent[i]["subject"] = subject /\ sent[i]["body"] = body

AllDelivered == \A i \in 1..Len(sent) : sent[i]["ok"]

\* the cache holds the new record for the current item and is otherwise
\* as it was when the item began
CacheOverwritten ==
    /\ cacheFiles[<<kind, ItemId>>] # NoFile
    /\ get_cached(cacheFiles, kind, ItemId) = info
    /\ \A item \in Kinds \X Ids :
          item # <<kind, ItemId>> => cacheFiles[item] = cache0[item]

\* the _check_* calls of a complete cycle, from the configuration
ExpectedChecks ==
    (IF args.skip_movies THEN <<>>
     ELSE [ i \in 1..Len(Movies) |-> <<"movie", i - 1, Movies[i]>> ])
    \o (IF args.skip_shows THEN <<>>
        ELSE [ i \in 1..Len(Shows) |-> <<"show", i - 1, Shows[i]>> ])

\* C1 as stated: when the processing of an item whose fetched record
\* differs from the cached one is over, one send has been issued to every
\* configured recipient in list order unless skip-mails is set (then none),
\* and the cache entry equals the new record unless skip-cache is set (then
\* the cache is as it was).
C1_AsStated ==
    (Formatted /\ info # info_cached /\ ItemOver) =>
        /\ IF args.skip_mails THEN sent = <<>>
           ELSE Receivers = EmailTo /\ SentAsFormatted
        /\ IF args.skip_cache THEN cacheFiles = cache0
           ELSE CacheOverwritten

\* C1 amended: for an item whose fetched record differs from the cached
\* one, the sends go to the configured recipients in list order, one each,
\* with the formatted subject and body, until the list is exhausted or a
\* send raises; when _check_* returns every recipient has been sent to and
\* the cache entry equals the new record (unless skip-cache); with
\* skip-mails no send is issued; with skip-cache, or when a send raised,
\* the cache is left as it was.
C1_ChangedItemNotifiesAndCaches ==
    (Formatted /\ info # info_cached) =>
        /\ changed
        /\ SentAsFormatted
        /\ Len(sent) <= Len(EmailTo)
        /\ Receivers = SubSeq(EmailTo, 1, Len(sent))
        /\ \A i \in 1..(Len(sent) - 1) : sent[i]["ok"]
        /\ args.skip_mails => sent = <<>>
        /\ args.skip_cache => cacheFiles = cache0
        /\ pc = "item_done" =>
              /\ AllDelivered
              /\ ~ args.skip_mails => Receivers = EmailTo
              /\ ~ args.skip_cache => CacheOverwritten
        /\ pc = "exit" =>
              /\ result = "raise: SendMail.send"
              /\ ~ sent[Len(sent)]["ok"]
              /\ cacheFiles = cache0

\* C1 witness: a changed item with two recipients and an existing cache
\* entry has been mailed to both and its entry overwritten
C1_Witness ==
    /\ pc = "item_done" /\ changed
    /\ ~ args.skip_mails /\ ~ args.skip_cache
    /\ Len(EmailTo) = 2 /\ Len(sent) = 2
    /\ cache0[<<kind, ItemId>>] # NoFile
    /\ cacheFiles # cache0

\* C2: an item whose fetched record equals the cached record is processed
\* without side effects, whatever the flags: no send is issued and the
\* whole cache is as it was when the item began.
C2_UnchangedItemHasNoEffects ==
    (Formatted /\ info = info_cached) =>
        /\ ~ changed
        /\ pc = "item_done"
        /\ sent = <<>>
        /\ cacheFiles = cache0

\* C2 witness: an unchanged item, with recipients configured and neither
\* mails nor cache writes suppressed
C2_Witness ==
    /\ Formatted /\ info = info_cached /\ pc = "item_done"
    /\ ~ args.skip_mails /\ ~ args.skip_cache
    /\ EmailTo # <<>>

\* C3 as stated: a run in which TMDB failed for an item still processes
\* every configured item and ends with exit code 0.
C3_FetchFailureDoesNotAbort ==
    (pc = "exit" /\ tmdb /\ result # "raise: SendMail.send") =>
        /\ ExitCode = 0
        /\ checks = ExpectedChecks

\* C4: the cache entry of a changed item is written only if every
\* configured recipient was sent to successfully or skip-mails is set; once
\* a send has raised, the cache stays as it was when the item began.
C4_CacheWrittenOnlyAfterMails ==
    /\ (\E i \in 1..Len(sent) : ~ sent[i]["ok"]) => cacheFiles = cache0
    /\ cacheFiles # cache0 =>
          \/ args.skip_mails
          \/ (Receivers = EmailTo /\ AllDelivered)

\* C4 witness: the send to the second recipient of a changed item raised
\* while cache writes were enabled
C4_Witness ==
    /\ changed /\ ~ args.skip_cache
    /\ Len(sent) = 2 /\ sent[1]["ok"] /\ ~ sent[2]["ok"]
    /\ pc = "exit"

\* the API key is missing from config.json or empty
KeyMissingOrEmpty ==
    \/ configFile = NoFile
    \/ ~ ("tmdb" \in DOMAIN configFile["json"])
    \/ configFile["json"]["tmdb"] \in { PyNone, Str(<<>>) }

\* C5: without an API key run() returns 1 before any polling: no client is
\* constructed, no item is checked, fetched or mailed, no pause is made and
\* the cache is neither read nor written; with an API key, a run whose
\* cycle completes exits with 0.
C5_MissingKeyReturnsOne ==
    /\ (KeyMissingOrEmpty /\ pc # "run") =>
          /\ pc = "exit" /\ result = "return 1" /\ ExitCode = 1
          /\ ~ tmdb
          /\ checks = <<>> /\ pauses = <<>> /\ sent = <<>>
          /\ info_cached = EmptyDict /\ info = EmptyDict
          /\ cacheFiles = cache0
    /\ (~ KeyMissingOrEmpty /\ pc = "exit" /\ tmdb /\ returns = ExpectedChecks) =>
          ExitCode = 0

\* C5 witness: a configuration with movies and shows but an empty API key
\* has ended the run
C5_Witness ==
    /\ pc = "exit" /\ result = "return 1"
    /\ configFile # NoFile
    /\ "tmdb" \in DOMAIN configFile["json"]
    /\ configFile["json"]["tmdb"] = Str(<<>>)
    /\ Movies # <<>> /\ Shows # <<>>

\* C6 as stated: a cycle checks the configured movies and then the
\* configured shows, each list in its order and each occurrence once, none
\* of a skipped kind, and when the run is over every one of them has been
\* checked.
C6_EveryItemInOrder ==
    /\ (tmdb /\ checks # ExpectedChecks) =>
          /\ Len(checks) < Len(ExpectedChecks)
          /\ checks = SubSeq(ExpectedChecks, 1, Len(checks))
    /\ (pc = "exit" /\ tmdb /\ result # "raise: SendMail.send") =>
          checks = ExpectedChecks

\* the items begun so far in this run, as <<kind, number of items of the
\* kind before it>>
Started == [ i \in 1..Len(checks) |-> <<checks[i][1], checks[i][2]>> ]

\* C7 as stated: the pauses are those between item k and item k+1 of a
\* kind for the positive multiples k of 10; none is made while fewer than
\* 10 items of the kind have been processed.
C7_AsStated ==
    pauses = SelectSeq(Started, LAMBDA c : c[2] > 0 /\ c[2] % 10 = 0)

\* C7 amended: a pause is made immediately before the item of a kind that
\* k items of the kind precede exactly when k is a multiple of 10, zero
\* included: before the 1st, the 11th, the 21st item of each kind.
C7_PauseBeforeEveryTenth ==
    pauses = SelectSeq(Started, LAMBDA c : c[2] % 10 = 0)

\* C7 witness: a run over 21 movies has paused before the 1st, the 11th
\* and the 21st
C7_Witness ==
    /\ pc = "exit" /\ result = "return 0"
    /\ Len(returns) >= 21
    /\ pauses = << <<"movie", 0>>, <<"movie", 10>>, <<"movie", 20>> >>

ShowChecks == SelectSeq(checks, LAMBDA c : c[1] = "show")
ShowPauses == SelectSeq(pauses, LAMBDA c : c[1] = "show")

\* C8: with 11 configured movies exactly one pause precedes the first
\* movie; and the shows are counted from zero again, so that the pauses of
\* the show loop are those before its 1st, 11th, ... show, however many
\* movies were processed before.
C8_ElevenMoviesAndCounterReset ==
    /\ (Len(checks) >= 1 /\ Len(Movies) = 11 /\ checks[1][1] = "movie") =>
          /\ pauses # <<>>
          /\ pauses[1] = <<"movie", 0>>
          /\ Len(checks) = 1 => Len(pauses) = 1
          /\ \A i \in 2..Len(pauses) : pauses[i] # <<"movie", 0>>
    /\ \A j \in 1..Len(ShowChecks) : ShowChecks[j][2] = j - 1
    /\ ShowPauses = [ j \in 1..((Len(ShowChecks) + 9) \div 10) |->
                        <<"show", 10 * (j - 1)>> ]

\* C8 witness: a complete run over 11 movies and 11 shows, with two pauses
\* in each loop
C8_Witness ==
    /\ pc = "exit" /\ result = "return 0"
    /\ Len(Movies) = 11 /\ Len(Shows) = 11
    /\ ~ args.skip_movies /\ ~ args.skip_shows
    /\ pauses = << <<"movie", 0>>, <<"movie", 10>>, <<"show", 0>>, <<"show", 10>> >>

\* the current item had no cache file when it began
FirstPoll == Formatted /\ cache0[<<kind, ItemId>>] = NoFile

C10_ChangeIffRecordsDiffer ==
    Formatted =>
        /\ changed <=> info # info_cached
        /\ ~ changed => subject = <<>> /\ body = <<>>
        /\ changed => subject # <<>> /\ body # <<>>

\* C10 witness: two movie records that differ only in the second entry of
\* their release lists are reported as changed
C10_Witness ==
    /\ Formatted /\ changed /\ kind = "movie"
    /\ info_cached # EmptyDict
    /\ info["title"] = info_cached["title"]
    /\ info["original_title"] = info_cached["original_title"]
    /\ info["status"] = info_cached["status"]
    /\ Len(info["release_dates"]) = 2
    /\ Len(info_cached["release_dates"]) = 1
    /\ info["release_dates"][1]["iso_639_1"] = "US"
    /\ info_cached["release_dates"][1] = info["release_dates"][1]

\* ------------------------------------------------ normalizer properties
\* _get_*_info has been called for the current item and has returned
Normalized == pc \in {"format", "send", "put_cached", "item_done"}
                 \/ result = "raise: SendMail.send"

\* _get_movie_info has been called for the current movie, and has
\* returned or raised
MovieFetched == kind = "movie" /\ (Normalized \/ result = "raise: TypeError")

\* the release regions in their priority order
Regions == <<"US", "GB", "DE">>

\* the release list of a region in the payload TMDB returned; the API
\* lists a region at most once
RegionReleases(movie, region) ==
    IF "release_dates" \notin DOMAIN movie
       \/ "results" \notin DOMAIN movie["release_dates"]
       \/ \A i \in DOMAIN movie["release_dates"]["results"] :
             movie["release_dates"]["results"][i]["iso_3166_1"] # region
    THEN <<>>
    ELSE LET i == CHOOSE i \in DOMAIN movie["release_dates"]["results"] :
                      movie["release_dates"]["results"][i]["iso_3166_1"] = region
         IN movie["release_dates"]["results"][i]["release_dates"]

\* the regions with a non-empty release list, in priority order
RegionsWithReleases(movie) ==
    SelectSeq(Regions, LAMBDA r : RegionReleases(movie, r) # <<>>)

\* the release type names of the specification
TypeName(c) ==
    CASE c = 1 -> "Premiere"
      [] c = 2 -> "LimitedTheatrical"
      [] c = 3 -> "Theatrical"
      [] c = 4 -> "Digital"
      [] c = 5 -> "Physical"
      [] c = 6 -> "TV"
      [] OTHER -> "Unknown"

C13_TitleFallback ==
    Normalized =>
        LET t == IF kind = "movie" THEN "title" ELSE "name"
            o == IF kind = "movie" THEN "original_title" ELSE "original_name"
            title == IF t \in DOMAIN payload THEN payload[t] ELSE ""
        IN /\ info["title"] = title
           /\ info["original_title"]
                 = IF o \notin DOMAIN payload \/ payload[o] = ""
                   THEN title
                   ELSE payload[o]

\* ----------------------------------------------------- re-poll properties
\* the last poll of the current item that reported a change, in an
\* earlier loop iteration or an earlier run
Last == prev[<<kind, ItemId>>]

\* TMDB has answered this poll of the current item as it answered the
\* last poll of the item that reported a change
Repoll == Formatted /\ Last["polled"] /\ Last["payload"] = payload


\* C14: when the last poll of an item reported a change, mailed it without
\* a failure and cached it, a poll that fetches the same payload reports
\* no change, sends nothing and leaves the cache as it is, in the same
\* run and in a later run. With skip-cache set, a poll that fetches the
\* same payload reports the change again with the same subject and body,
\* and when it returns it has sent as many mails as the last poll.
C14_RepollIsIdempotent ==
    Repoll =>
        /\ (~ Last["failed"] /\ ~ args.skip_cache) =>
              /\ ~ changed
              /\ sent = <<>>
              /\ cacheFiles = cache0
        /\ args.skip_cache =>
              /\ changed
              /\ <<subject, body>> = Last["mail"]
              /\ (ItemOver /\ ~ args.skip_mails /\ EmailTo # <<>>) => sent # <<>>
              /\ (pc = "item_done" /\ ~ Last["failed"]) =>
                    /\ AllDelivered
                    /\ Len(sent) = Last["delivered"]

\* C14 witness: the second run polls an item that the first run mailed
\* and cached, and finds it unchanged
C14_Witness ==
    /\ Repoll /\ run = 2 /\ pc = "item_done"
    /\ ~ Last["failed"] /\ Last["delivered"] >= 1
    /\ ~ args.skip_cache
    /\ ~ changed /\ sent = <<>>

\* the place of an effect in _check_*: the cache read, the request to
\* TMDB, the mails, the cache write
EffectRank(e) ==
    CASE e = "get_cached" -> 1
      [] e = "fetch" -> 2
      [] e = "send" -> 3
      [] e = "put_cached" -> 4

\* C15: within an item the cache is read first, then TMDB is asked, then
\* the mails are sent, and the cache write comes last; each of them but
\* the mails happens at most once. When the send to the k-th recipient has
\* raised, recipients 1..k-1 have got the mail, the cache is as it was
\* when the item began, and the run has ended with this item as the last
\* one checked. A later poll of the item that fetches the same payload
\* reports the same change with the same subject and body, sends in list
\* order again, and when it returns it has again sent to as many
\* recipients as the failed poll had reached.
C15_OrderWithinItem ==
    /\ \A i, j \in 1..Len(effects) :
          i < j => \/ EffectRank(effects[i]) < EffectRank(effects[j])
                   \/ effects[i] = "send" /\ effects[j] = "send"
    /\ effects # <<>> => effects[1] = "get_cached"
    /\ Len(SelectSeq(effects, LAMBDA e : e = "send")) = Len(sent)
    /\ result = "raise: SendMail.send" =>
          /\ \A i \in 1..(Len(sent) - 1) :
                /\ sent[i]["ok"]
                /\ sent[i]["receiver"] = EmailTo[i]
          /\ ~ sent[Len(sent)]["ok"]
          /\ sent[Len(sent)]["receiver"] = EmailTo[Len(sent)]
          /\ SentAsFormatted
          /\ cacheFiles = cache0
          /\ pc = "exit"
          /\ checks[Len(checks)] = <<kind, n, ItemId>>
          /\ Len(returns) = Len(checks) - 1
    /\ (Repoll /\ Last["failed"]) =>
          /\ changed
          /\ <<subject, body>> = Last["mail"]
          /\ \A i \in 1..Len(sent) : sent[i]["receiver"] = EmailTo[i]
          /\ SentAsFormatted
          /\ pc \in {"put_cached", "item_done"} =>
                /\ AllDelivered
                /\ Len(sent) > Last["delivered"]

\* C15 witness: the send to the second recipient raised in the first run,
\* and the second run has mailed the first recipient again, and the second
\* one, and has written the cache
C15_Witness ==
    /\ Repoll /\ run = 2 /\ pc = "item_done"
    /\ Last["failed"] /\ Last["delivered"] = 1
    /\ Len(sent) = 2 /\ AllDelivered
    /\ effects = <<"get_cached", "fetch", "send", "send", "put_cached">>

====
